---- MODULE Spec2Model ----
(***************************************************************************)
(* Model of the RS485 framing protocol of src/rs485/rs485.py: the          *)
(* transmitter sendMsg and the receive state machine of update().          *)
(*                                                                         *)
(* update() is a loop that reads one byte at a time while the transport    *)
(* reports available bytes.  One loop iteration (lines 91-151) is one      *)
(* step of the model, so an update() call with k bytes available is k      *)
(* consecutive steps; between two steps the caller may run reset() or      *)
(* getPacket(), which is an update() call that returned in between.        *)
(***************************************************************************)
EXTENDS Integers, Sequences, FiniteSets, TLC

\* ------------------------------------------------------------------------
\* Constants of the program
\* ------------------------------------------------------------------------
STX == 2
ETX == 3
MAX_LENGTH == 255
Poly == 140
None == -1

\* ------------------------------------------------------------------------
\* Bounds of the model
\* ------------------------------------------------------------------------
MaxTime == 9
MaxLen == 2
MaxNoise == 5
MaxErrors == 1
MaxFrames == 3

\* ------------------------------------------------------------------------
\* Bytes and bit operations (Python ints restricted to 0..255)
\* ------------------------------------------------------------------------
Byte == 0..255

RECURSIVE xor(_, _)
xor(a, b) ==
    IF a = 0 THEN b
    ELSE IF b = 0 THEN a
    ELSE ((a + b) % 2) + 2 * xor(a \div 2, b \div 2)

\* One pass of the inner loop of _crc8 (one bit of the byte).
crcBit(crc, byte) ==
    LET mix == xor(crc, byte) % 2
        shifted == crc \div 2
    IN  IF mix = 1 THEN xor(shifted, Poly) ELSE shifted

\* The inner loop "for i in range(8)" with n passes left.
RECURSIVE crcByte(_, _, _)
crcByte(crc, byte, n) ==
    IF n = 0 THEN crc
    ELSE crcByte(crcBit(crc, byte), byte \div 2, n - 1)

\* The outer loop "for byte in data" over data[lo..hi], in order, starting
\* from the accumulator crc, which is a byte.  The range is split in halves
\* only to keep the evaluation shallow: the bytes are still taken in order.
RECURSIVE crcFrom(_, _, _, _)
crcFrom(crc, data, lo, hi) ==
    IF lo > hi \/ crc \notin Byte THEN crc
    ELSE IF lo = hi THEN crcByte(crc, data[lo], 8)
    ELSE crcFrom(crcFrom(crc, data, lo, (lo + hi) \div 2),
                 data, ((lo + hi) \div 2) + 1, hi)

crc8Zero(data) == 0

crc8(data) == crcFrom(0, data, 1, Len(data))

\* ------------------------------------------------------------------------
\* Transmitter
\* ------------------------------------------------------------------------
\* The wire byte written for one nibble.
complemented(nibble) == (nibble * 16) + xor(nibble, 15)

sendComplementedSwapped(byte) ==
    << complemented(byte % 16), complemented(byte \div 16) >>

\* The two bytes _sendComplemented hands to the write callback, in order.
sendComplemented(byte) ==
    << complemented(byte \div 16), complemented(byte % 16) >>

\* The loop "for byte in data": the k-th write is a nibble of byte (k+1)/2.
sendData(data) ==
    [k \in 1..(2 * Len(data)) |->
        sendComplemented(data[(k + 1) \div 2])[2 - (k % 2)]]

sendMsgNoEtx(data) ==
    <<STX>> \o sendData(data) \o sendComplemented(crc8(data))

\* Every byte sendMsg hands to the write callback, in order.
sendMsg(data) ==
    <<STX>> \o sendData(data) \o <<ETX>> \o sendComplemented(crc8(data))

\* ------------------------------------------------------------------------
\* Receiver: the working set as a record, and the steps of update()
\* ------------------------------------------------------------------------
resetClearsQueue(r) ==
    [r EXCEPT !.data = << >>, !.state = "waiting", !.firstNibble = None,
              !.packets = << >>]

resetKeepNibble(r) == [r EXCEPT !.data = << >>, !.state = "waiting"]

reset(r) ==
    [r EXCEPT !.data = << >>, !.state = "waiting", !.firstNibble = None]

onErrorCountsTwice(r) == reset([r EXCEPT !.errorCount = @ + 2])

onErrorNoReset(r) == [r EXCEPT !.errorCount = @ + 1]

\* "errorCount += 1; reset()" of every error path.
onError(r) == reset([r EXCEPT !.errorCount = @ + 1])

onStxNoTime(r, t) ==
    LET r2 == IF r.state # "waiting"
              THEN [r EXCEPT !.errorCount = @ + 1] ELSE r
    IN  [reset(r2) EXCEPT !.state = "receiveData"]

onStxNoReset(r, t) ==
    LET r1 == [r EXCEPT !.startTime = t]
        r2 == IF r.state # "waiting"
              THEN [r1 EXCEPT !.errorCount = @ + 1] ELSE r1
    IN  [r2 EXCEPT !.state = "receiveData"]

onStx(r, t) ==
    LET r1 == [r EXCEPT !.startTime = t]
        r2 == IF r.state # "waiting"
              THEN [r1 EXCEPT !.errorCount = @ + 1] ELSE r1
    IN  [reset(r2) EXCEPT !.state = "receiveData"]

onEtxNoNibbleCheck(r) == [r EXCEPT !.state = "receiveCrc"]

onEtx(r) ==
    IF r.firstNibble = None
    THEN [r EXCEPT !.state = "receiveCrc"]
    ELSE onError(r)

validNibble(b) == (b \div 16) = xor(b % 16, 15)

assembleSwapped(first, nibble) == (nibble * 16) + first

assemble(first, nibble) == (first * 16) + nibble

onDataSilentOverflow(r, byte) ==
    IF Len(r.data) < MAX_LENGTH
    THEN [r EXCEPT !.data = Append(@, byte)]
    ELSE reset(r)

onDataOffByOne(r, byte) ==
    IF Len(r.data) <= MAX_LENGTH
    THEN [r EXCEPT !.data = Append(@, byte)]
    ELSE onError(r)

onData(r, byte) ==
    IF Len(r.data) < MAX_LENGTH
    THEN [r EXCEPT !.data = Append(@, byte)]
    ELSE onError(r)

onCrcUnchecked(r, byte) ==
    [r EXCEPT !.packets = Append(@, r.data), !.state = "waiting"]

onCrc(r, byte) ==
    IF crc8(r.data) # byte
    THEN onError(r)
    ELSE [r EXCEPT !.packets = Append(@, r.data), !.state = "waiting"]

\* One iteration of the while loop of update() on the byte b just read,
\* with t the value of datetime.datetime.now().
processByte(r, b, t) ==
    IF b = STX THEN onStx(r, t)
    ELSE IF b = ETX THEN onEtx(r)
    ELSE IF r.state = "waiting" THEN r
    ELSE IF ~validNibble(b) THEN onError(r)
    ELSE LET nibble == b \div 16 IN
         IF r.firstNibble = None
         THEN [r EXCEPT !.firstNibble = nibble]
         ELSE LET byte == assemble(r.firstNibble, nibble)
                  r1 == [r EXCEPT !.firstNibble = None]
              IN  IF r.state = "receiveData"
                  THEN onData(r1, byte)
                  ELSE onCrc(r1, byte)

\* ------------------------------------------------------------------------
\* State
\* ------------------------------------------------------------------------
VARIABLES
    state,        \* self.state
    data,         \* self._data
    firstNibble,  \* self._firstNibble
    errorCount,   \* self.errorCount
    startTime,    \* self._startTime
    packets,      \* self._packets
    byte,         \* the byte last read by update()
    wire,         \* bytes written by the write callback, not yet read
    now,          \* the clock read by datetime.datetime.now()
    op,           \* the operation that made the last step
    prev,         \* the working set before the last step
    nStx,         \* start markers processed so far
    nAppended,    \* packets appended to the queue so far
    started,      \* a start marker was processed and nothing ended it since
    payload,      \* the argument of the last sendMsg call
    nSent,        \* sendMsg calls so far
    mark,         \* the working set when sendMsg was last called
    corrupt,      \* the value that replaced a wire byte, or None
    callbacks,    \* the callbacks given to __init__ (those that are not None)
    log,          \* every packet update() appended, in order
    taken         \* every packet getPacket() returned, in order

rcvVars == <<state, data, firstNibble, errorCount, startTime, packets>>
histVars == <<byte, op, prev, nStx, nAppended, started>>
txVars == <<wire, payload, nSent, mark, corrupt>>
queueVars == <<log, taken>>
vars == <<rcvVars, histVars, txVars, now, callbacks, queueVars>>

self ==
    [state |-> state, data |-> data, firstNibble |-> firstNibble,
     errorCount |-> errorCount, startTime |-> startTime, packets |-> packets]

setSelf(r) ==
    /\ state' = r.state
    /\ data' = r.data
    /\ firstNibble' = r.firstNibble
    /\ errorCount' = r.errorCount
    /\ startTime' = r.startTime
    /\ packets' = r.packets

\* The receiver after __init__.
constructed ==
    reset([state |-> "waiting", data |-> << >>, firstNibble |-> None,
           errorCount |-> 0, startTime |-> None, packets |-> << >>])

AllCallbacks == {"fWrite", "fAvailable", "fRead"}

\* sendMsg raises RuntimeError unless the write callback was supplied.
canSendAlways(cb) == TRUE

canSend(cb) == "fWrite" \in cb

\* update raises RuntimeError unless both receive callbacks were supplied.
canUpdate(cb) == "fAvailable" \in cb /\ "fRead" \in cb

\* The state after RS485(fWrite, fAvailable, fRead) with the callbacks cb.
Constructed(cb) ==
    /\ callbacks = cb
    /\ state = constructed.state
    /\ data = constructed.data
    /\ firstNibble = constructed.firstNibble
    /\ errorCount = constructed.errorCount
    /\ startTime = constructed.startTime
    /\ packets = constructed.packets
    /\ byte = None
    /\ wire = << >>
    /\ now = 0
    /\ op = "init"
    /\ prev = constructed
    /\ nStx = 0
    /\ nAppended = 0
    /\ started = FALSE
    /\ payload = << >>
    /\ nSent = 0
    /\ mark = constructed
    /\ corrupt = None
    /\ log = << >>
    /\ taken = << >>

\* A receiver constructed with all three callbacks (as SerialWrapper does).
Init == Constructed(AllCallbacks)

\* A receiver constructed with any subset of the callbacks.
InitConfig == \E cb \in SUBSET AllCallbacks : Constructed(cb)

available == Len(packets) > 0

isPacketStarted == state # "waiting"

getPacketLast(q) ==
    [returned |-> q[Len(q)], rest |-> SubSeq(q, 1, Len(q) - 1)]

\* self._packets.pop(0): the packet returned and the queue left.
getPacket(q) == [returned |-> Head(q), rest |-> Tail(q)]

\* ------------------------------------------------------------------------
\* Actions
\* ------------------------------------------------------------------------
\* One loop iteration of update() on byte b read at clock value t.
Read(b, t) ==
    LET r == processByte(self, b, t) IN
    /\ canUpdate(callbacks)
    /\ setSelf(r)
    /\ byte' = b
    /\ op' = "update"
    /\ prev' = self
    /\ nStx' = IF b = STX THEN nStx + 1 ELSE nStx
    /\ nAppended' = nAppended + (Len(r.packets) - Len(packets))
    /\ started' = IF b = STX THEN TRUE
                  ELSE IF r.errorCount > errorCount
                          \/ Len(r.packets) > Len(packets) THEN FALSE
                  ELSE started
    /\ log' = log \o SubSeq(r.packets, Len(packets) + 1, Len(r.packets))
    /\ UNCHANGED <<callbacks, taken>>

\* update() reads a byte the transport supplies (any source).
UpdateByte(b) ==
    /\ now' = now + 1
    /\ Read(b, now')
    /\ UNCHANGED txVars

\* The caller calls reset().
Reset ==
    /\ setSelf(reset(self))
    /\ op' = "reset"
    /\ prev' = self
    /\ started' = FALSE
    /\ UNCHANGED <<byte, nStx, nAppended, txVars, now, callbacks, queueVars>>

\* The caller calls getPacket() on a non-empty queue.
GetPacket ==
    /\ available
    /\ packets' = getPacket(packets).rest
    /\ taken' = Append(taken, getPacket(packets).returned)
    /\ op' = "getPacket"
    /\ prev' = self
    /\ UNCHANGED <<state, data, firstNibble, errorCount, startTime>>
    /\ UNCHANGED <<byte, nStx, nAppended, started, txVars, now>>
    /\ UNCHANGED <<callbacks, log>>

\* update() reads the next byte of the wire (the transport is a loop-back of
\* the write callback: available() is Len(wire), read() takes its head).
UpdateWire ==
    /\ wire # << >>
    /\ now' = now + 1
    /\ Read(Head(wire), now')
    /\ wire' = Tail(wire)
    /\ UNCHANGED <<payload, nSent, mark, corrupt>>

\* update() reads a byte from a burst that arrives within one clock reading.
UpdateBurst(b) ==
    /\ Read(b, now)
    /\ UNCHANGED <<txVars, now>>

\* The caller calls sendMsg(p): every byte goes to the write callback.
SendMsg(p) ==
    /\ canSend(callbacks)
    /\ wire' = wire \o sendMsg(p)
    /\ payload' = p
    /\ nSent' = nSent + 1
    /\ mark' = self
    /\ op' = "sendMsg"
    /\ prev' = self
    /\ UNCHANGED <<rcvVars, byte, nStx, nAppended, started, corrupt, now>>
    /\ UNCHANGED <<callbacks, queueVars>>

\* sendMsg(p) without a write callback: RuntimeError before any write.
SendMsgError ==
    /\ ~canSend(callbacks)
    /\ op' = "sendMsgError"
    /\ prev' = self
    /\ UNCHANGED <<rcvVars, byte, nStx, nAppended, started, txVars, now>>
    /\ UNCHANGED <<callbacks, queueVars>>

\* update() without both receive callbacks: RuntimeError before any read.
UpdateError ==
    /\ ~canUpdate(callbacks)
    /\ op' = "updateError"
    /\ prev' = self
    /\ UNCHANGED <<rcvVars, byte, nStx, nAppended, started, txVars, now>>
    /\ UNCHANGED <<callbacks, queueVars>>

\* The link replaces the wire byte at position i by the value v.
Corrupt(i, v) ==
    /\ i \in 1..Len(wire)
    /\ v # wire[i]
    /\ wire' = [wire EXCEPT ![i] = v]
    /\ corrupt' = v
    /\ op' = "corrupt"
    /\ prev' = self
    /\ UNCHANGED <<rcvVars, byte, nStx, nAppended, started, now>>
    /\ UNCHANGED <<payload, nSent, mark, callbacks, queueVars>>

Alphabet == {STX, ETX, 15, 30, 0}

Next ==
    \/ \E b \in Alphabet : now < MaxTime /\ UpdateByte(b)
    \/ Reset
    \/ GetPacket

Spec == Init /\ [][Next]_vars

\* ------------------------------------------------------------------------
\* Properties of the receive state machine under arbitrary input (Spec)
\* ------------------------------------------------------------------------
\* C2: update() appends a packet only at a step taken in receiveCrc on the
\* second nibble of a pair whose decoded byte equals crc8 of the payload
\* buffer, and the packet appended is that buffer; no packet is appended at
\* a step that counts an error or that reads a marker byte.
C2_OnlyVerifiedPayloadsQueued ==
    /\ (op = "update" /\ packets # prev.packets) =>
          /\ prev.state = "receiveCrc"
          /\ prev.firstNibble # None
          /\ byte \notin {STX, ETX}
          /\ validNibble(byte)
          /\ assemble(prev.firstNibble, byte \div 16) = crc8(prev.data)
          /\ packets = Append(prev.packets, prev.data)
    /\ (op = "update" /\ errorCount # prev.errorCount) =>
          packets = prev.packets
    /\ (op = "update" /\ byte \in {STX, ETX}) => packets = prev.packets

C2_Witness ==
    /\ op = "update"
    /\ Len(packets) = Len(prev.packets) + 1
    /\ prev.data # << >>

\* C3: the number of packets ever appended to the queue is at most the
\* number of start markers processed.
C3_PacketsAtMostStartMarkers == nAppended <= nStx

\* C4: a byte other than the start marker read in state waiting changes
\* nothing of the working set, the error count, the start time or the queue.
C4_WaitingIgnoresAllButStx ==
    (op = "update" /\ prev.state = "waiting" /\ byte # STX) => self = prev

\* C5: isPacketStarted() is true exactly when a start marker has been
\* processed and no completion, error reset or reset() call followed it.
C5_StartedIffStartMarker == isPacketStarted <=> started

\* C17: immediately after update() appends a completed packet the payload
\* buffer is empty, and in every reachable state with state = waiting the
\* payload buffer is empty.
C17_WaitingBufferEmpty ==
    /\ (op = "update" /\ Len(packets) > Len(prev.packets)) => data = << >>
    /\ state = "waiting" => data = << >>

\* C18: the byte 2, read in any state, records the current time as the
\* start time and leaves state receiveData, an empty buffer and no pending
\* nibble; errorCount grows by one iff the state before was not waiting;
\* the queue is unchanged.
C18_StartMarkerRule ==
    (op = "update" /\ byte = STX) =>
        /\ startTime = now
        /\ state = "receiveData"
        /\ data = << >>
        /\ firstNibble = None
        /\ errorCount = prev.errorCount
                         + (IF prev.state # "waiting" THEN 1 ELSE 0)
        /\ packets = prev.packets

C18_Witness ==
    /\ op = "update"
    /\ byte = STX
    /\ prev.state = "receiveCrc"
    /\ prev.data # << >>
    /\ prev.firstNibble # None
    /\ prev.startTime # None
    /\ prev.startTime # startTime
    /\ errorCount = prev.errorCount + 1

\* C19: the byte 3 read while a packet is in progress: with no pending
\* nibble only the state changes, to receiveCrc, and the next decoded nibble
\* pair is compared with crc8 of the buffer; with a nibble pending,
\* errorCount grows by one, the state is waiting, the buffer is empty and
\* the nibble is cleared.
C19_EndMarkerRule ==
    /\ (op = "update" /\ byte = ETX /\ prev.state # "waiting") =>
          IF prev.firstNibble = None
          THEN self = [prev EXCEPT !.state = "receiveCrc"]
          ELSE self = [prev EXCEPT !.errorCount = @ + 1, !.state = "waiting",
                                   !.data = << >>, !.firstNibble = None]
    /\ (op = "update" /\ prev.state = "receiveCrc" /\ byte \notin {STX, ETX}
           /\ prev.firstNibble # None /\ validNibble(byte)) =>
          IF (prev.firstNibble * 16) + (byte \div 16) = crc8(prev.data)
          THEN /\ packets = Append(prev.packets, prev.data)
               /\ errorCount = prev.errorCount
          ELSE /\ packets = prev.packets
               /\ errorCount = prev.errorCount + 1

C19_Witness ==
    /\ op = "update"
    /\ byte = ETX
    /\ prev.state = "receiveData"
    /\ prev.firstNibble # None
    /\ prev.data # << >>
    /\ errorCount = prev.errorCount + 1
    /\ state = "waiting"

\* ------------------------------------------------------------------------
\* Round trip: a frame written by sendMsg is read by a fresh receiver
\* ------------------------------------------------------------------------
SmallBytes == {0, 1, 2, 3, 94, 255}

RECURSIVE SeqsUpTo(_, _)
SeqsUpTo(S, n) ==
    IF n = 0 THEN {<< >>}
    ELSE LET shorter == SeqsUpTo(S, n - 1) IN
         shorter \cup {Append(q, x) : q \in shorter, x \in S}

\* Every one-byte payload, every payload of up to MaxLen small bytes, and two
\* payloads of the maximum length that together hold every byte value.
Payloads ==
    {<<b>> : b \in Byte} \cup SeqsUpTo(SmallBytes, MaxLen)
    \cup {[i \in 1..MAX_LENGTH |-> i], [i \in 1..MAX_LENGTH |-> i - 1]}

NextRoundTrip ==
    \/ \E p \in Payloads : nSent = 0 /\ SendMsg(p)
    \/ UpdateWire

SpecRoundTrip == Init /\ [][NextRoundTrip]_vars

\* C1: the bytes sendMsg(payload) writes, read by a freshly constructed
\* receiver, append exactly one packet, equal to payload, once the last
\* byte is read and none before; errorCount stays 0 and the state ends as
\* waiting.
C1_RoundTrip ==
    nSent = 1 =>
        /\ errorCount = 0
        /\ IF wire = << >>
           THEN packets = <<payload>> /\ state = "waiting"
           ELSE packets = << >>

C1_Witness ==
    /\ nSent = 1
    /\ wire = << >>
    /\ Len(payload) = MAX_LENGTH
    /\ packets = <<payload>>

\* C15: for a payload of n bytes sendMsg writes exactly 1 + 2n + 1 + 2 bytes:
\* 2, then for each payload byte in order the encoding of its high nibble
\* and of its low nibble, then 3, then the encodings of the high and low
\* nibble of crc8(payload); the value 2 is written only first and the value
\* 3 only at position 1 + 2n (counted from 0).
C15_FrameLayout ==
    (op = "sendMsg" /\ nSent = 1) =>
        LET n == Len(payload)
            c == crc8(payload)
            enc(h) == (16 * h) + (15 - h)
        IN  /\ Len(wire) = 1 + (2 * n) + 1 + 2
            /\ wire[1] = 2
            /\ \A i \in 1..n :
                  /\ wire[2 * i] = enc(payload[i] \div 16)
                  /\ wire[(2 * i) + 1] = enc(payload[i] % 16)
            /\ wire[(2 * n) + 2] = 3
            /\ wire[(2 * n) + 3] = enc(c \div 16)
            /\ wire[(2 * n) + 4] = enc(c % 16)
            /\ \A k \in 1..Len(wire) :
                  /\ wire[k] = 2 => k = 1
                  /\ wire[k] = 3 => k = (2 * n) + 2

C15_Witness ==
    /\ op = "sendMsg"
    /\ nSent = 1
    /\ Len(payload) = MAX_LENGTH
    /\ \E i, j \in 1..Len(payload) : payload[i] = 2 /\ payload[j] = 3
    /\ Len(wire) = (2 * MAX_LENGTH) + 4

\* ------------------------------------------------------------------------
\* Resynchronization: arbitrary input, then a well-formed frame
\* ------------------------------------------------------------------------
FramePayloads == {<< >>, <<0>>, <<1>>, <<94, 1>>}

NextResync ==
    \/ \E b \in Alphabet : nSent = 0 /\ now < MaxNoise /\ UpdateByte(b)
    \/ nSent = 0 /\ Reset
    \/ nSent = 0 /\ GetPacket
    \/ \E p \in FramePayloads : nSent = 0 /\ SendMsg(p)
    \/ UpdateWire

SpecResync == Init /\ [][NextResync]_vars

\* C6: when the start marker of a well-formed frame is read while a packet
\* is in progress, errorCount rises by exactly one at that byte and the
\* bytes collected so far are discarded; the frame is then appended with
\* exactly its own payload and no further error.
C6_SpuriousStartResync ==
    (nSent = 1 /\ mark.state # "waiting"
        /\ Len(wire) < Len(sendMsg(payload))) =>
        /\ errorCount = mark.errorCount + 1
        /\ Len(wire) = Len(sendMsg(payload)) - 1 =>
              /\ data = << >>
              /\ firstNibble = None
              /\ state = "receiveData"
              /\ packets = mark.packets
        /\ wire = << >> => packets = Append(mark.packets, payload)

C6_Witness ==
    /\ nSent = 1
    /\ wire = << >>
    /\ mark.state = "receiveData"
    /\ mark.data # << >>
    /\ payload # << >>
    /\ errorCount = mark.errorCount + 1
    /\ packets = Append(mark.packets, payload)

\* C8: from every receiver state, reading the complete frame of a payload
\* appends that payload as the newest packet of the queue and raises
\* errorCount by at most one.
C8_FrameAfterAnyInput ==
    (nSent = 1 /\ wire = << >>) =>
        /\ packets = Append(mark.packets, payload)
        /\ errorCount \in {mark.errorCount, mark.errorCount + 1}

C8_Witness ==
    /\ nSent = 1
    /\ wire = << >>
    /\ mark.errorCount > 0
    /\ mark.state = "receiveCrc"
    /\ mark.firstNibble # None
    /\ packets = Append(mark.packets, payload)

\* ------------------------------------------------------------------------
\* Corruption: one wire byte of a frame is replaced, a good frame follows
\* ------------------------------------------------------------------------
ValidWire == {complemented(n) : n \in 0..15}

CorruptBytes == ValidWire \cup {STX, ETX, 0, 255}

CorruptPayloads == SeqsUpTo({0, 1, 255}, MaxLen) \ {<< >>}

\* Positions strictly between the STX and the ETX of the unread frame.
PayloadPositions == 2..(Len(wire) - 3)

NextCorrupt ==
    \/ \E p \in CorruptPayloads : nSent = 0 /\ SendMsg(p)
    \/ \E i \in PayloadPositions, v \in CorruptBytes :
          nSent = 1 /\ corrupt = None /\ Corrupt(i, v)
    \/ corrupt # None /\ UpdateWire
    \/ \E p \in FramePayloads :
          nSent = 1 /\ corrupt # None /\ wire = << >> /\ SendMsg(p)

SpecCorrupt == Init /\ [][NextCorrupt]_vars

BurstAlphabet == {STX, ETX, 15}

\* The burst is read until a packet is queued or MaxErrors errors are counted.
NextOverflow ==
    \E b \in BurstAlphabet :
        errorCount < MaxErrors /\ ~available /\ UpdateBurst(b)

SpecOverflow == Init /\ [][NextOverflow]_vars

\* C9: in receiveData with MAX_LENGTH bytes in the payload buffer, the
\* second nibble of a further pair counts one error, empties the buffer,
\* returns to waiting and appends nothing to the queue.
C9_Overflow ==
    (op = "update" /\ prev.state = "receiveData"
        /\ Len(prev.data) = MAX_LENGTH /\ prev.firstNibble # None
        /\ byte \notin {STX, ETX} /\ validNibble(byte)) =>
        /\ errorCount = prev.errorCount + 1
        /\ data = << >>
        /\ firstNibble = None
        /\ state = "waiting"
        /\ packets = prev.packets

C9_Witness ==
    /\ op = "update"
    /\ prev.state = "receiveData"
    /\ Len(prev.data) = MAX_LENGTH
    /\ prev.firstNibble # None
    /\ byte = 15

\* C10: the payload buffer never holds more than MAX_LENGTH bytes, and so
\* every queued packet has a length in 0..MAX_LENGTH.
C10_BufferBounded ==
    /\ Len(data) <= MAX_LENGTH
    /\ \A i \in 1..Len(packets) : Len(packets[i]) \in 0..MAX_LENGTH

C10_Witness ==
    /\ packets # << >>
    /\ Len(packets[1]) = MAX_LENGTH
    /\ Len(data) = MAX_LENGTH

\* ------------------------------------------------------------------------
\* Loop-back link: frames sent, read and taken in any interleaving, for a
\* receiver constructed with any subset of the callbacks
\* ------------------------------------------------------------------------
NextLink ==
    \/ \E p \in FramePayloads : nSent < MaxFrames /\ SendMsg(p)
    \/ SendMsgError
    \/ UpdateWire
    \/ UpdateError
    \/ GetPacket

SpecLink == InitConfig /\ [][NextLink]_vars

\* C11: getPacket() returns the packets in exactly the order update()
\* appended them, each once, and changes nothing but the queue; once as many
\* packets were taken as were appended, available() is false.
C11_QueueFifo ==
    /\ log = taken \o packets
    /\ op = "getPacket" =>
          /\ self = [prev EXCEPT !.packets = packets]
          /\ prev.packets = <<taken[Len(taken)]>> \o packets
    /\ Len(taken) = Len(log) => ~available

C11_Witness ==
    /\ op = "getPacket"
    /\ Len(taken) >= 2
    /\ taken[1] # taken[2]
    /\ Len(taken) = Len(log)
    /\ ~available

\* C14: without a write callback sendMsg() fails before any byte is
\* written, and without both receive callbacks update() fails before any
\* byte is read; the failing call changes nothing of the receiver.
C14_ConfigErrors ==
    /\ "fWrite" \notin callbacks => wire = << >> /\ nSent = 0
    /\ ("fAvailable" \notin callbacks \/ "fRead" \notin callbacks) =>
          byte = None /\ now = 0 /\ self = constructed
    /\ op \in {"sendMsgError", "updateError"} => self = prev

C14_Witness ==
    /\ op = "updateError"
    /\ "fRead" \notin callbacks
    /\ wire # << >>

\* ------------------------------------------------------------------------
\* The error counter and reset()
\* ------------------------------------------------------------------------
\* C12: errorCount starts at 0 and never decreases; only a byte processed by
\* update() changes it, and by at most one.
C12_ErrorCountMonotonic ==
    /\ op = "init" => errorCount = 0
    /\ errorCount >= prev.errorCount
    /\ op = "update" => errorCount \in {prev.errorCount, prev.errorCount + 1}
    /\ op # "update" => errorCount = prev.errorCount

C12_Witness ==
    /\ op = "update"
    /\ prev.errorCount >= 1
    /\ errorCount = prev.errorCount + 1

\* C13: reset(), called by the caller or on an error path, empties the
\* payload buffer, clears the pending nibble and sets the state to waiting;
\* errorCount, the queue and the start time are as they were before the call
\* (on an error path, as they were after the error was counted).
C13_ResetFrame ==
    /\ op = "reset" =>
          self = [prev EXCEPT !.data = << >>, !.firstNibble = None,
                              !.state = "waiting"]
    /\ (op = "update" /\ errorCount # prev.errorCount /\ byte # STX) =>
          self = [prev EXCEPT !.data = << >>, !.firstNibble = None,
                              !.state = "waiting",
                              !.errorCount = prev.errorCount + 1]

C13_Witness ==
    /\ op = "reset"
    /\ prev.state = "receiveData"
    /\ prev.data # << >>
    /\ prev.firstNibble # None
    /\ packets # << >>
    /\ errorCount > 0
    /\ startTime # None

\* ------------------------------------------------------------------------
\* The nibble codec: every byte value read while a packet is in progress
\* ------------------------------------------------------------------------
\* The values listed in the docstring of _sendComplemented.
NibbleBytes ==
    {15, 30, 45, 60, 75, 90, 105, 120, 135, 150, 165, 180, 195, 210, 225, 240}

\* update() reads any byte value, until a first payload byte is buffered, an
\* error is counted or a packet is queued.
NextCodec ==
    \E b \in Byte :
        /\ data = << >>
        /\ errorCount = 0
        /\ ~available
        /\ UpdateBurst(b)

SpecCodec == Init /\ [][NextCodec]_vars

\* C16: the sender's encoding of a nibble n, (n << 4) | (n ^ 0xF), passes
\* the receiver's validity test and decodes to n; every other byte value
\* fails the test; the valid bytes are exactly the sixteen listed values;
\* two decoded nibbles a then b form the byte (a << 4) | b.
C16_NibbleCodec ==
    /\ \A n \in 0..15 :
          /\ validNibble(complemented(n))
          /\ complemented(n) \div 16 = n
          /\ complemented(n) \in NibbleBytes
    /\ \A b \in Byte : validNibble(b) <=> b \in NibbleBytes
    /\ \A b \in Byte : validNibble(b) <=> b \in ValidWire
    /\ (op = "update" /\ prev.state # "waiting" /\ byte \notin {STX, ETX}) =>
          IF byte \in NibbleBytes
          THEN IF prev.firstNibble = None
               THEN self = [prev EXCEPT !.firstNibble = byte \div 16]
               ELSE prev.state = "receiveData" =>
                      self = [prev EXCEPT
                                !.firstNibble = None,
                                !.data = <<(prev.firstNibble * 16)
                                           + (byte \div 16)>>]
          ELSE self = [prev EXCEPT !.errorCount = @ + 1, !.state = "waiting",
                                   !.firstNibble = None, !.data = << >>]

C16_Witness ==
    /\ op = "update"
    /\ prev.state = "receiveData"
    /\ prev.firstNibble = 10
    /\ byte = 75
    /\ data = <<164>>

\* ------------------------------------------------------------------------
\* Protocol errors: every kind of error, the overflow included
\* ------------------------------------------------------------------------
\* The markers, the nibble 0, an invalid byte, and the nibble 1.
ErrorAlphabet == {STX, ETX, 15, 0, 30}

\* The burst is read until a packet is queued or MaxErrors errors are
\* counted; the nibble 1 is supplied only as part of the checksum.
NextErrors ==
    \E b \in ErrorAlphabet :
        /\ errorCount < MaxErrors
        /\ ~available
        /\ b = 30 => state = "receiveCrc"
        /\ UpdateBurst(b)

SpecErrors == Init /\ [][NextErrors]_vars

InvalidNibbleError ==
    prev.state # "waiting" /\ byte \notin {STX, ETX} /\ byte \notin NibbleBytes

EtxBetweenNibblesError == byte = ETX /\ prev.firstNibble # None

StxMidPacketError == byte = STX /\ prev.state # "waiting"

SecondNibble ==
    /\ byte \in NibbleBytes
    /\ prev.firstNibble # None

OverflowError ==
    SecondNibble /\ prev.state = "receiveData" /\ Len(prev.data) = 255

CrcMismatchError ==
    /\ SecondNibble
    /\ prev.state = "receiveCrc"
    /\ (prev.firstNibble * 16) + (byte \div 16) # crc8(prev.data)

\* C20: each protocol error (invalid nibble byte, end marker between
\* nibbles, start marker mid-packet, overflow past 255 bytes, checksum
\* mismatch) is processed by update() as a step that raises errorCount by
\* exactly one and leaves an empty buffer and no pending nibble, in state
\* waiting (receiveData for the start marker), with the queue as it was;
\* nothing else changes errorCount; no pending nibble is held in state
\* waiting or after a start marker.
C20_ErrorsAbsorbed ==
    /\ op = "update" =>
          /\ (\/ InvalidNibbleError
              \/ EtxBetweenNibblesError
              \/ StxMidPacketError
              \/ OverflowError
              \/ CrcMismatchError) <=> errorCount # prev.errorCount
          /\ errorCount # prev.errorCount =>
                /\ errorCount = prev.errorCount + 1
                /\ data = << >>
                /\ firstNibble = None
                /\ state = IF byte = STX THEN "receiveData" ELSE "waiting"
                /\ packets = prev.packets
          /\ byte = STX => firstNibble = None
    /\ state = "waiting" => firstNibble = None

C20_Witness ==
    /\ op = "update"
    /\ CrcMismatchError
    /\ Len(prev.data) = MAX_LENGTH
    /\ errorCount = prev.errorCount + 1
    /\ state = "waiting"
    /\ data = << >>

====
